---- MODULE Spec2Model ----
(***************************************************************************)
(* Model of netlify/functions/telegram-webhook.js: the per-chat rate       *)
(* limiter, the Airtable helpers, the command router and the Netlify       *)
(* handler.                                                                *)
(*                                                                         *)
(* A JavaScript string is a sequence of one-character strings, so that     *)
(* trim, split, toLowerCase, join and the safeText filter are computed     *)
(* character by character.  A literal of a reply template is one chunk of  *)
(* the sequence.  A falsy id (absent, null or 0) is the number 0, a falsy  *)
(* string (absent or '') is the empty sequence: the code tests both only   *)
(* with || and &&.                                                         *)
(***************************************************************************)
EXTENDS Integers, Sequences, FiniteSets, TLC

\* ---- bounds of the model ----
MaxWindows == 1   \* the clock runs over the windows 0..MaxWindows
MaxOffset == 1    \* and over the offsets 0..MaxOffset into each of them
MaxRecords == 2   \* rows the Airtable table may hold
MaxOverlap == 2   \* invocations of the handler that may be in flight at once

\* ---- strings ----
S_start == <<"/","s","t","a","r","t">>
S_start0 == <<"s","t","a","r","t">>
S_profile == <<"/","p","r","o","f","i","l","e">>
S_me == <<"/","m","e">>
S_setpayment == <<"/","s","e","t","p","a","y","m","e","n","t">>
S_setpayment0 == <<"s","e","t","p","a","y","m","e","n","t">>
S_getpayments == <<"/","g","e","t","p","a","y","m","e","n","t","s">>
S_payments == <<"/","p","a","y","m","e","n","t","s">>
S_jazzcash == <<"j","a","z","z","c","a","s","h">>
S_easypaisa == <<"e","a","s","y","p","a","i","s","a">>
S_unknown == <<"u","n","k","n","o","w","n">>
S_User == <<"U","s","e","r">>

IsSpace(c) == c = " "

LowerChar(c) ==
  CASE c = "S" -> "s" [] c = "P" -> "p" [] c = "J" -> "j" [] c = "C" -> "c"
    [] c = "G" -> "g" [] c = "M" -> "m" [] OTHER -> c

\* String.prototype.toLowerCase
ToLowerCase(s) == [i \in 1..Len(s) |-> LowerChar(s[i])]

RECURSIVE TrimStart(_)
TrimStart(s) == IF s # <<>> /\ IsSpace(Head(s)) THEN TrimStart(Tail(s)) ELSE s

RECURSIVE TrimEnd(_)
TrimEnd(s) ==
  IF s # <<>> /\ IsSpace(s[Len(s)]) THEN TrimEnd(SubSeq(s, 1, Len(s) - 1)) ELSE s

\* String.prototype.trim
Trim(s) == TrimEnd(TrimStart(s))

\* s.split(/\s+/): the pieces between the maximal runs of whitespace, the
\* empty pieces at either end included; ''.split gives [''].
RECURSIVE SplitFrom(_, _, _, _)
SplitFrom(s, done, cur, inRun) ==
  IF s = <<>> THEN Append(done, cur)
  ELSE IF IsSpace(Head(s))
    THEN IF inRun THEN SplitFrom(Tail(s), done, cur, TRUE)
         ELSE SplitFrom(Tail(s), Append(done, cur), <<>>, TRUE)
    ELSE SplitFrom(Tail(s), done, Append(cur, Head(s)), FALSE)

SplitWs(s) == SplitFrom(s, <<>>, <<>>, FALSE)

\* parts.slice(from - 1) in 1-based positions
Slice(parts, from) == SubSeq(parts, from, Len(parts))

\* Array.prototype.join(sep)
RECURSIVE Join(_, _)
Join(parts, sep) ==
  IF parts = <<>> THEN <<>>
  ELSE IF Len(parts) = 1 THEN parts[1]
  ELSE parts[1] \o sep \o Join(Tail(parts), sep)

\* Array.prototype.includes
Includes(arr, x) == \E i \in 1..Len(arr) : arr[i] = x

StartsWithSlash(s) == s # <<>> /\ s[1] = "/"

\* the grave accent U+0060, which a TLA+ string literal cannot hold
Grave == "grave"

MarkupChars == {"*", "_", Grave, "[", "]"}

safeText_keepBrackets(s) == SelectSeq(s, LAMBDA c : c \notin {"*", "_", Grave})

\* safeText: String(s || '') with every character of the class
\* star, underscore, grave accent, [ and ] removed
safeText(s) == SelectSeq(s, LAMBDA c : c \notin MarkupChars)

\* String(userId): the id 0 stands for null
IdStr(id) ==
  CASE id = 0 -> "null" [] id = 111 -> "111" [] id = 222 -> "222" [] OTHER -> "?"

\* ---- the texts of the inputs ----
T_start == S_start
T_profile == S_profile
T_set_jx == S_setpayment \o <<" ">> \o S_jazzcash \o <<" ", "x">>
T_set_Jy == <<" ", "S","e","t","P","a","y","m","e","n","t", " ", " ",
              "J","a","z","z","C","a","s","h", " ", "y", " ">>
T_set_ey == S_setpayment \o <<" ">> \o S_easypaisa \o <<" ", "y", " ", " ", "*", "z">>
T_set_e2 == S_setpayment \o <<" ">> \o S_easypaisa
T_set_1 == S_setpayment
T_set_bad == S_setpayment \o <<" ", "b", "i", "t", "c", "o", "i", "n", " ", "x">>
T_get == S_getpayments
T_pay == S_payments
T_unknown == <<"/", "f", "o", "o">>
T_plain == <<"h", "e", "l", "l", "o">>
T_empty == <<>>
T_profile0 == <<"p","r","o","f","i","l","e">>
T_get0 == <<"g","e","t","p","a","y","m","e","n","t","s">>
T_help == <<"/","h","e","l","p">>

Texts == {T_start, T_profile, T_set_jx, T_set_Jy, T_set_ey, T_set_e2, T_set_1, T_set_bad,
          T_get, T_pay, T_unknown, T_plain, T_empty, T_profile0, T_get0, T_help}

\* text.trim().split(/\s+/), tabulated over the texts of the inputs (raw, and
\* as the handler trims them) so that it is computed once for each
PartsOfTexts == [t \in Texts \cup {Trim(x) : x \in Texts} |-> SplitWs(Trim(t))]

Parts(text) == PartsOfTexts[text]

\* a || b on ids and on strings
OrId(a, b) == IF a # 0 THEN a ELSE b
OrStr(a, b) == IF a # <<>> THEN a ELSE b

VARIABLES
  now,               \* Date.now()
  rateMap,           \* chatId -> [count, resetAt]
  table,             \* the rows of the Airtable table, in the order of its view
  ADMIN_IDS,         \* the entries of TELEGRAM_ADMIN_IDS
  AIRTABLE_API_KEY,  \* whether the variable is set
  AIRTABLE_BASE_ID,  \* whether the variable is set
  ev,                \* the event of the latest invocation of exports.handler
  ret,               \* what that invocation returned
  routed,            \* whether it called handleCommand
  args,              \* the arguments of that call
  allowed,           \* what allowRate returned in it
  sent,              \* the sendMessage calls it made, in order
  reqs,              \* the Airtable requests it made, in order, with their outcome
  winStart,          \* history: per chat, the time of the first call of its window
  winCalls,          \* history: per chat, the calls made in that window (capped)
  reopened,          \* history: per chat, that window followed an expired one
  latest,            \* history: per provider, the details of the latest valid setpayment of an admin
  clean,             \* history: each of those passed the rate limit and had all its requests answered with success
  calls,             \* the overlapping invocations: where each stands, with its locals
  written            \* history: per row, the details of the write of theirs applied to it last

vars == <<now, rateMap, table, ADMIN_IDS, AIRTABLE_API_KEY, AIRTABLE_BASE_ID, ev, ret,
          routed, args, allowed, sent, reqs, winStart, winCalls, reopened, latest, clean,
          calls, written>>

\* ---- rate limiter ----
RATE_LIMIT_WINDOW_MS == 5000
RATE_LIMIT_MAX == 3

NewWindow(rm, chatId, t) ==
  [c \in DOMAIN rm \cup {chatId} |->
     IF c = chatId THEN [count |-> 1, resetAt |-> t + RATE_LIMIT_WINDOW_MS] ELSE rm[c]]

AllowRate_expiresAtReset(rm, chatId, t) ==
  IF chatId \notin DOMAIN rm \/ t >= rm[chatId].resetAt
    THEN [ok |-> TRUE, rateMap |-> NewWindow(rm, chatId, t)]
  ELSE IF rm[chatId].count < RATE_LIMIT_MAX
    THEN [ok |-> TRUE, rateMap |-> [rm EXCEPT ![chatId].count = @ + 1]]
  ELSE [ok |-> FALSE, rateMap |-> rm]

AllowRate_extendsOnDeny(rm, chatId, t) ==
  IF chatId \notin DOMAIN rm \/ t > rm[chatId].resetAt
    THEN [ok |-> TRUE, rateMap |-> NewWindow(rm, chatId, t)]
  ELSE IF rm[chatId].count < RATE_LIMIT_MAX
    THEN [ok |-> TRUE, rateMap |-> [rm EXCEPT ![chatId].count = @ + 1]]
  ELSE [ok |-> FALSE,
        rateMap |-> [rm EXCEPT ![chatId].resetAt = t + RATE_LIMIT_WINDOW_MS]]

AllowRate_lostIncrement(rm, chatId, t) ==
  IF chatId \notin DOMAIN rm \/ t > rm[chatId].resetAt
    THEN [ok |-> TRUE, rateMap |-> NewWindow(rm, chatId, t)]
  ELSE IF rm[chatId].count < RATE_LIMIT_MAX
    THEN [ok |-> TRUE, rateMap |-> rm]
  ELSE [ok |-> FALSE, rateMap |-> rm]

\* allowRate(chatId) called at time t on the map rm: what it returns and the map after
AllowRate(rm, chatId, t) ==
  IF chatId \notin DOMAIN rm \/ t > rm[chatId].resetAt
    THEN [ok |-> TRUE, rateMap |-> NewWindow(rm, chatId, t)]
  ELSE IF rm[chatId].count < RATE_LIMIT_MAX
    THEN [ok |-> TRUE, rateMap |-> [rm EXCEPT ![chatId].count = @ + 1]]
  ELSE [ok |-> FALSE, rateMap |-> rm]

\* ---- outbound messages ----
\* The run of one invocation: the table, the sends and the Airtable requests
\* made so far, and whether an exception is propagating.
Run0(tbl) == [table |-> tbl, sent |-> <<>>, reqs |-> <<>>, threw |-> FALSE]

\* what a fetch can do: answer with a success status, answer with a
\* non-success status (the body still JSON), or reject
FetchOutcomes == {"ok", "fail", "reject"}

Msg(chatId, text, mode) == [chat_id |-> chatId, text |-> text, parse_mode |-> mode]

\* await tg('sendMessage', msg): a non-success answer is logged, a rejected
\* fetch throws
Tg(k, msg) ==
  { [k EXCEPT !.sent = Append(@, msg), !.threw = (o = "reject")] : o \in FetchOutcomes }

\* ---- Airtable helpers ----
Configured == AIRTABLE_API_KEY /\ AIRTABLE_BASE_ID

Rec(id, provider, details) ==
  [id |-> id, fields |-> [Provider |-> provider, Details |-> details]]

Req(op, id, provider, details, res) ==
  [op |-> op, id |-> id, provider |-> provider, details |-> details, res |-> res]

\* the rows the find's filterByFormula AND({Provider}="provider") selects
FindRecords(tbl, provider) == SelectSeq(tbl, LAMBDA r : r.fields.Provider = provider)

\* the table after a PATCH of the row id that Airtable accepted
PatchRecord(tbl, id, provider, details) ==
  [i \in 1..Len(tbl) |-> IF tbl[i].id = id THEN Rec(id, provider, details) ELSE tbl[i]]

\* the table after a POST that Airtable accepted: rows are never deleted, so
\* the next position is a fresh id
CreateRecord(tbl, provider, details) == Append(tbl, Rec(Len(tbl) + 1, provider, details))

\* the PATCH branch: the answer's status is not looked at, patched.json() is returned
Patch(k, rec, provider, details) ==
  { [k EXCEPT !.table = IF o = "ok" THEN PatchRecord(@, rec.id, provider, details) ELSE @,
              !.reqs = Append(@, Req("patch", rec.id, provider, details, o)),
              !.threw = (o = "reject")] : o \in FetchOutcomes }

\* the POST branch: likewise
Create(k, provider, details) ==
  { [k EXCEPT !.table = IF o = "ok" THEN CreateRecord(@, provider, details) ELSE @,
              !.reqs = Append(@, Req("create", 0, provider, details, o)),
              !.threw = (o = "reject")] : o \in FetchOutcomes }

AirtableCreateOrUpdate_noFind(k, provider, details) ==
  IF ~Configured THEN {[k EXCEPT !.threw = TRUE]}
  ELSE Create(k, provider, details)

\* airtableCreateOrUpdate(provider, details): every run it can take.  The find's
\* status is not looked at: a non-success answer has no records member and
\* goes on to the POST branch, as does a body that is not JSON.
AirtableCreateOrUpdate(k, provider, details) ==
  IF ~Configured THEN {[k EXCEPT !.threw = TRUE]}
  ELSE UNION {
    LET k1 == [k EXCEPT !.reqs = Append(@, Req("find", 0, provider, <<>>, o))]
        records == IF o = "ok" THEN FindRecords(k.table, provider) ELSE <<>>
    IN  IF o = "reject" THEN {[k1 EXCEPT !.threw = TRUE]}
        ELSE IF records # <<>> THEN Patch(k1, records[1], provider, details)
        ELSE Create(k1, provider, details)
    : o \in FetchOutcomes }

AirtableGetAll_ignoresStatus(k) ==
  IF ~Configured THEN {[k |-> k, records |-> <<>>]}
  ELSE { [k |-> [k EXCEPT !.reqs = Append(@, Req("list", 0, <<>>, <<>>, o)),
                          !.threw = (o = "reject")],
          records |-> IF o # "reject" THEN k.table ELSE <<>>] : o \in FetchOutcomes }

\* airtableGetAll(): every run it can take, with the records it returns
AirtableGetAll(k) ==
  IF ~Configured THEN {[k |-> k, records |-> <<>>]}
  ELSE { [k |-> [k EXCEPT !.reqs = Append(@, Req("list", 0, <<>>, <<>>, o)),
                          !.threw = (o = "reject")],
          records |-> IF o = "ok" THEN k.table ELSE <<>>] : o \in FetchOutcomes }

\* ---- command router ----
ALLOWED_PROVIDERS == <<S_jazzcash, S_easypaisa>>

\* the literals of the replies (the dashes and emoji of the source in ASCII)
TXT_SLOW == <<"Slow down, boss - too many commands at once.">>
TXT_HELP == <<"*Welcome to VHub - Premium Edition!*\n\nAvailable commands:\n/start - show this help\n/profile - view your basic profile\n/setpayment <provider> <details> - admin only\n/getpayments - list payment methods\n\nProviders: jazzcash, easypaisa">>
TXT_ADMIN_ONLY == <<"Only admin(s) can use /setpayment.">>
TXT_USAGE == <<"Usage: /setpayment <provider> <details>\nExample: /setpayment easypaisa 03xx-xxxxxxx">>
TXT_FAILED == <<"Failed to update payment details - check server logs.">>
TXT_NONE == <<"No payment details configured yet.">>
TXT_READ_ERROR == <<"Error reading payment details.">>
TXT_UNKNOWN == <<"Unknown command. Use /start to see available commands.">>
TXT_DEFAULT == <<"I only understand a few commands for now. Try /start.">>
TXT_INVALID == <<"Invalid provider. Allowed: ">> \o Join(ALLOWED_PROVIDERS, <<",", " ">>)

TxtUpdated(provider) == <<"Updated *">> \o provider \o <<"* details.">>
TxtConfigured(provider, details) == <<"Configured ">> \o provider \o <<": ">> \o details

\* the profile reply of a message from message.from
ProfileMsg(userId, message) ==
  LET name == OrStr(OrStr(message.from.first_name, message.from.username), S_User)
  IN  <<"*Profile*\nName: ">> \o safeText(name) \o <<"\nID: ", IdStr(userId), "\nTelegram: ">>
        \o (IF message.from.username # <<>>
              THEN <<"@">> \o safeText(message.from.username) ELSE <<"-">>)

BULLET == "\n- *"

\* one pass of records.forEach over the reply being built
BulletLine(r) ==
  <<BULLET>> \o safeText(OrStr(r.fields.Provider, S_unknown)) \o <<"*: ">>
    \o safeText(r.fields.Details)

RECURSIVE ForEachBullet(_, _)
ForEachBullet(out, records) ==
  IF records = <<>> THEN out
  ELSE ForEachBullet(out \o BulletLine(Head(records)), Tail(records))

FormatRecords_dropLast(records) ==
  ForEachBullet(<<"*Current Payment Details:*\n">>, SubSeq(records, 1, Len(records) - 1))

FormatRecords(records) == ForEachBullet(<<"*Current Payment Details:*\n">>, records)

\* a try block whose catch sends msg: a run that threw is caught and goes on
\* with the send, which itself may throw
CatchAndSend(runs, msg) ==
  UNION { IF k.threw THEN Tg([k EXCEPT !.threw = FALSE], msg) ELSE {k} : k \in runs }

\* an awaited send after the runs: those that threw skip it
ThenSend(runs, msg) == UNION { IF k.threw THEN {k} ELSE Tg(k, msg) : k \in runs }

IsAdmin_failClosed(userId) == IdStr(userId) \in ADMIN_IDS

IsAdmin_inverted(userId) == IF ADMIN_IDS # {} THEN TRUE ELSE IdStr(userId) \in ADMIN_IDS

\* ADMIN_IDS.length ? ADMIN_IDS.includes(String(userId)) : true
IsAdmin(userId) == IF ADMIN_IDS # {} THEN IdStr(userId) \in ADMIN_IDS ELSE TRUE

SetPaymentStore_noFallback(k, chatId, provider, details) ==
  CatchAndSend(
    ThenSend(AirtableCreateOrUpdate(k, provider, details),
             Msg(chatId, TxtUpdated(provider), "Markdown")),
    Msg(chatId, TXT_FAILED, "none"))

\* the try block of the setpayment branch and its catch
SetPaymentStore(k, chatId, provider, details) ==
  CatchAndSend(
    IF Configured
      THEN ThenSend(AirtableCreateOrUpdate(k, provider, details),
                    Msg(chatId, TxtUpdated(provider), "Markdown"))
      ELSE Tg(k, Msg(chatId, TxtConfigured(provider, details), "none")),
    Msg(chatId, TXT_FAILED, "none"))

SetPayment_arityFirst(k, chatId, userId, parts) ==
  IF Len(parts) < 3 THEN Tg(k, Msg(chatId, TXT_USAGE, "none"))
  ELSE IF ~IsAdmin(userId) THEN Tg(k, Msg(chatId, TXT_ADMIN_ONLY, "none"))
  ELSE LET provider == ToLowerCase(parts[2])
       IN  IF ~Includes(ALLOWED_PROVIDERS, provider)
             THEN Tg(k, Msg(chatId, TXT_INVALID, "none"))
             ELSE SetPaymentStore(k, chatId, provider, Join(Slice(parts, 3), <<" ">>))

SetPayment_storeBeforeProvider(k, chatId, userId, parts) ==
  IF ~IsAdmin(userId) THEN Tg(k, Msg(chatId, TXT_ADMIN_ONLY, "none"))
  ELSE IF Len(parts) < 3 THEN Tg(k, Msg(chatId, TXT_USAGE, "none"))
  ELSE SetPaymentStore(k, chatId, ToLowerCase(parts[2]), Join(Slice(parts, 3), <<" ">>))

\* the setpayment branch
SetPayment(k, chatId, userId, parts) ==
  IF ~IsAdmin(userId) THEN Tg(k, Msg(chatId, TXT_ADMIN_ONLY, "none"))
  ELSE IF Len(parts) < 3 THEN Tg(k, Msg(chatId, TXT_USAGE, "none"))
  ELSE LET provider == ToLowerCase(parts[2])
       IN  IF ~Includes(ALLOWED_PROVIDERS, provider)
             THEN Tg(k, Msg(chatId, TXT_INVALID, "none"))
             ELSE SetPaymentStore(k, chatId, provider, Join(Slice(parts, 3), <<" ">>))

\* the getpayments branch: its try block and its catch
GetPayments(k, chatId) ==
  CatchAndSend(
    UNION { IF g.k.threw THEN {g.k}
            ELSE IF g.records = <<>> THEN Tg(g.k, Msg(chatId, TXT_NONE, "none"))
            ELSE Tg(g.k, Msg(chatId, FormatRecords(g.records), "Markdown"))
            : g \in AirtableGetAll(k) },
    Msg(chatId, TXT_READ_ERROR, "none"))

\* handleCommand after the rate limit
Route(k, chatId, userId, text, message) ==
  LET parts == Parts(text)
      cmd == ToLowerCase(parts[1])
  IN  IF cmd = S_start \/ cmd = S_start0
        THEN Tg(k, Msg(chatId, TXT_HELP, "Markdown"))
      ELSE IF cmd = S_profile \/ cmd = S_me
        THEN Tg(k, Msg(chatId, ProfileMsg(userId, message), "Markdown"))
      ELSE IF cmd = S_setpayment \/ cmd = S_setpayment0
        THEN SetPayment(k, chatId, userId, parts)
      ELSE IF cmd = S_getpayments \/ cmd = S_payments
        THEN GetPayments(k, chatId)
      ELSE IF StartsWithSlash(text)
        THEN Tg(k, Msg(chatId, TXT_UNKNOWN, "none"))
      ELSE Tg(k, Msg(chatId, TXT_DEFAULT, "none"))

HandleCommand_noReturn(rm, tbl, t, chatId, userId, text, message) ==
  LET r == AllowRate(rm, chatId, t)
  IN  { [allowed |-> r.ok, rateMap |-> r.rateMap, k |-> k] :
        k \in IF ~r.ok
                THEN UNION { IF k1.threw THEN {k1} ELSE Route(k1, chatId, userId, text, message)
                             : k1 \in Tg(Run0(tbl), Msg(chatId, TXT_SLOW, "none")) }
                ELSE Route(Run0(tbl), chatId, userId, text, message) }

\* handleCommand(chatId, userId, text, message) called at time t on the map
\* rm and the table tbl: every run it can take
HandleCommand(rm, tbl, t, chatId, userId, text, message) ==
  LET r == AllowRate(rm, chatId, t)
  IN  { [allowed |-> r.ok, rateMap |-> r.rateMap, k |-> k] :
        k \in IF ~r.ok
                THEN Tg(Run0(tbl), Msg(chatId, TXT_SLOW, "none"))
                ELSE Route(Run0(tbl), chatId, userId, text, message) }

\* ---- Netlify handler ----
NoFrom == [id |-> 0, first_name |-> <<>>, username |-> <<>>]
EmptyMsg == [text |-> <<>>, chat_id |-> 0, from |-> NoFrom]
NoArgs == [chatId |-> 0, userId |-> 0, text |-> <<>>]
OK200 == [statusCode |-> 200, body |-> "ok"]

Skip_clearsWindows(threw) ==
  [routed |-> FALSE, args |-> NoArgs, allowed |-> TRUE, rateMap |-> <<>>,
   table |-> table, sent |-> <<>>, reqs |-> <<>>, threw |-> threw]

\* an invocation that returns before handleCommand, or throws before it
Skip(threw) ==
  [routed |-> FALSE, args |-> NoArgs, allowed |-> TRUE, rateMap |-> rateMap,
   table |-> table, sent |-> <<>>, reqs |-> <<>>, threw |-> threw]

\* update.message || update.edited_message || callback_query.message || {}
MessageOf(update) ==
  IF update.message # <<>> THEN update.message[1]
  ELSE IF update.edited_message # <<>> THEN update.edited_message[1]
  ELSE IF update.callback_message # <<>> THEN update.callback_message[1]
  ELSE EmptyMsg

\* the body of the handler's try block: every run it can take
HandlerRuns(e) ==
  IF e.httpMethod # "POST" THEN {Skip(FALSE)}
  ELSE IF e.body.kind = "null" THEN {Skip(TRUE)}
  ELSE
    LET update == e.body
        message == MessageOf(update)
        text == Trim(message.text)
        first == IF update.message # <<>> THEN update.message[1] ELSE EmptyMsg
        chatId == OrId(message.chat_id, first.chat_id)
        fromId == OrId(message.from.id, first.from.id)
    IN  IF chatId = 0 THEN {Skip(FALSE)}
        ELSE { [routed |-> TRUE,
                args |-> [chatId |-> chatId, userId |-> fromId, text |-> text],
                allowed |-> h.allowed, rateMap |-> h.rateMap, table |-> h.k.table,
                sent |-> h.k.sent, reqs |-> h.k.reqs, threw |-> h.k.threw]
               : h \in HandleCommand(rateMap, table, now, chatId, fromId, text, message) }

HandlerReturn_noCatch(threw) ==
  IF threw THEN [statusCode |-> 500, body |-> "error"] ELSE OK200

\* what exports.handler returns: the return of its try block, or of its catch
HandlerReturn(threw) == IF threw THEN OK200 ELSE OK200

\* ---- the inputs ----
\* the ids of the chats of the inputs
Chat(i) == 1000 + i
F111 == [id |-> 111, first_name |-> <<"A", "*">>, username |-> <<"a", "_", "b">>]
F222 == [id |-> 222, first_name |-> <<>>, username |-> <<"[", "c", "]">>]

Message(chat, from, text) == [text |-> text, chat_id |-> chat, from |-> from]

Update(m) ==
  [kind |-> "update", message |-> <<m>>, edited_message |-> <<>>, callback_message |-> <<>>]

Post(body) == [httpMethod |-> "POST", body |-> body]

\* a body JSON.parse rejects (the update is then {}), and the body null
Unparsable ==
  [kind |-> "unparsable", message |-> <<>>, edited_message |-> <<>>, callback_message |-> <<>>]
NullBody ==
  [kind |-> "null", message |-> <<>>, edited_message |-> <<>>, callback_message |-> <<>>]

\* the events of the router's specification: one chat, every command
Events ==
  { Post(Update(Message(Chat(1), F111, t))) :
      t \in {T_set_jx, T_set_Jy, T_set_ey, T_set_e2, T_set_bad, T_set_1, T_get, T_pay,
             T_profile, T_start, T_unknown, T_plain, T_empty, T_profile0, T_get0,
             T_help} }
  \cup { Post(Update(Message(Chat(1), F222, t))) :
      t \in {T_set_jx, T_set_e2, T_set_bad, T_get} }
  \cup { Post(Update(Message(Chat(1), NoFrom, t))) : t \in {T_set_jx, T_profile} }
  \cup { Post(Unparsable), Post(NullBody),
         [httpMethod |-> "GET", body |-> Update(Message(Chat(1), F111, T_get))],
         Post(Update(Message(0, F111, T_get))),
         Post([kind |-> "update", message |-> <<>>,
               edited_message |-> <<Message(Chat(1), F222, T_get)>>,
               callback_message |-> <<>>]) }

\* the events of the rate limiter's specification: two chats, two commands
RateEvents ==
  { Post(Update(Message(c, F111, t))) : c \in {Chat(1), Chat(2)}, t \in {T_start, T_plain} }

NoEvent == [httpMethod |-> "none", body |-> Unparsable]
NoReturn == [statusCode |-> 0, body |-> "none"]

Providers == {S_jazzcash, S_easypaisa}
ChatIds == {Chat(1), Chat(2)}
\* the environments the process may start in: TELEGRAM_ADMIN_IDS, and
\* whether AIRTABLE_API_KEY is set
Configs == {<<{}, TRUE>>, <<{"111", "null"}, TRUE>>, <<{}, FALSE>>, <<{"111"}, FALSE>>}
\* the instants of the rate limiter's clock, and the coarser ones of the router's
Instants ==
  { w * RATE_LIMIT_WINDOW_MS + d : w \in 0..MaxWindows, d \in 0..MaxOffset }
WindowStarts == { w * (RATE_LIMIT_WINDOW_MS + 1) : w \in 0..MaxWindows }
CallsCap == RATE_LIMIT_MAX + 1

\* ---- what the history variables record ----
\* the tokens of a command text
Tokens(text) == Parts(text)

\* a routed call is a setpayment command
IsSetPaymentText(text) == ToLowerCase(Tokens(text)[1]) \in {S_setpayment, S_setpayment0}

\* the sender passes the admin check
PassesAdmin(userId) == ADMIN_IDS = {} \/ IdStr(userId) \in ADMIN_IDS

\* a setpayment command that passes validation: three tokens, a known provider
ValidSetPayment(text) ==
  /\ IsSetPaymentText(text)
  /\ Len(Tokens(text)) >= 3
  /\ ToLowerCase(Tokens(text)[2]) \in Providers

ProviderOf(text) == ToLowerCase(Tokens(text)[2])
DetailsOf(text) == Join(Slice(Tokens(text), 3), <<" ">>)

\* ---- overlapping invocations ----
\* An invocation runs without interruption from one await to the next; the
\* awaits of a setpayment are the find, the create or patch, and the sends.
\* a run holds one invocation more than a window admits
MaxCalls == RATE_LIMIT_MAX + 1
Slots == 1..MaxCalls

\* an invocation that has not arrived
NoCall ==
  [pc |-> "new", provider |-> <<>>, details |-> <<>>, found |-> 0, sawNone |-> FALSE,
   made |-> FALSE, ok |-> FALSE, nth |-> 0, win |-> 0, reply |-> <<>>, inTry |-> FALSE]

InFlight(c) == c.pc \in {"find", "write", "send"}

\* the invocation awaits the send of reply, inside the try of setpayment or
\* not; the locals of the upsert are gone
AwaitSend(c, reply, inTry) ==
  [c EXCEPT !.pc = "send", !.reply = reply, !.inTry = inTry,
            !.provider = <<>>, !.details = <<>>, !.found = 0, !.sawNone = FALSE]

\* exports.handler from its entry, through allowRate, to the first await of
\* handleCommand for a setpayment text: the map after, and the invocation there
FirstAwait(rm, t, chatId, userId, text) ==
  LET r == AllowRate(rm, chatId, t)
      parts == Parts(text)
      provider == ToLowerCase(parts[2])
      details == Join(Slice(parts, 3), <<" ">>)
      c == [NoCall EXCEPT !.ok = r.ok]
  IN  [rateMap |-> r.rateMap,
       call |->
         IF ~r.ok THEN AwaitSend(c, TXT_SLOW, FALSE)
         ELSE IF ~IsAdmin(userId) THEN AwaitSend(c, TXT_ADMIN_ONLY, FALSE)
         ELSE IF Len(parts) < 3 THEN AwaitSend(c, TXT_USAGE, FALSE)
         ELSE IF ~Includes(ALLOWED_PROVIDERS, provider) THEN AwaitSend(c, TXT_INVALID, FALSE)
         ELSE IF ~Configured THEN AwaitSend(c, TxtConfigured(provider, details), TRUE)
         ELSE [c EXCEPT !.pc = "find", !.provider = provider, !.details = details]]

WriteTarget_refind(c, tbl) ==
  IF FindRecords(tbl, c.provider) # <<>> THEN FindRecords(tbl, c.provider)[1].id ELSE 0

\* the record the write goes to: foundJson.records[0] of the find made
\* before, or none (a create)
WriteTarget(c, tbl) == c.found

\* the setpayment texts of the overlapping invocations, all for one
\* provider, the details alternating
OverlapText(i) == IF i % 2 = 1 THEN T_set_jx ELSE T_set_Jy

Init ==
  /\ now = 0
  /\ rateMap = <<>>
  /\ table = <<>>
  /\ \E cfg \in Configs : ADMIN_IDS = cfg[1] /\ AIRTABLE_API_KEY = cfg[2]
  /\ AIRTABLE_BASE_ID = TRUE
  /\ ev = NoEvent
  /\ ret = NoReturn
  /\ routed = FALSE
  /\ args = NoArgs
  /\ allowed = TRUE
  /\ sent = <<>>
  /\ reqs = <<>>
  /\ winStart = [c \in ChatIds |-> 0]
  /\ winCalls = [c \in ChatIds |-> 0]
  /\ reopened = [c \in ChatIds |-> FALSE]
  /\ latest = [p \in Providers |-> <<>>]
  /\ clean = TRUE
  /\ calls = [i \in Slots |-> NoCall]
  /\ written = <<>>

\* no invocation has returned and not yet been answered
Idle == ev = NoEvent

\* time passes between two invocations
Tick(T) ==
  /\ Idle
  /\ \E t \in T : t > now /\ now' = t
  /\ UNCHANGED <<rateMap, table, ADMIN_IDS, AIRTABLE_API_KEY, AIRTABLE_BASE_ID, ev, ret,
                 routed, args, allowed, sent, reqs, winStart, winCalls, reopened,
                 latest, clean, calls, written>>

\* one invocation of exports.handler, from the event to its return
Invoke(E) ==
  \E e \in E : \E o \in HandlerRuns(e) :
    /\ Idle
    /\ Len(o.table) <= MaxRecords
    /\ ev' = e
    /\ ret' = HandlerReturn(o.threw)
    /\ routed' = o.routed
    /\ args' = o.args
    /\ allowed' = o.allowed
    /\ sent' = o.sent
    /\ reqs' = o.reqs
    /\ rateMap' = o.rateMap
    /\ table' = o.table
    /\ IF o.routed
         THEN LET c == o.args.chatId
                  fresh == winCalls[c] = 0 \/ now > winStart[c] + RATE_LIMIT_WINDOW_MS
              IN  /\ winStart' = [winStart EXCEPT ![c] = IF fresh THEN now ELSE @]
                  /\ winCalls' = [winCalls EXCEPT ![c] =
                                    IF fresh THEN 1
                                    ELSE IF @ < CallsCap THEN @ + 1 ELSE @]
                  /\ reopened' = [reopened EXCEPT ![c] =
                                    IF fresh THEN winCalls[c] > 0 ELSE @]
         ELSE UNCHANGED <<winStart, winCalls, reopened>>
    /\ IF /\ o.routed /\ Configured
          /\ ValidSetPayment(o.args.text) /\ PassesAdmin(o.args.userId)
         THEN LET p == ProviderOf(o.args.text)
              IN  /\ latest' = [latest EXCEPT ![p] = <<DetailsOf(o.args.text)>>]
                  /\ clean' = /\ clean
                              /\ o.allowed
                              /\ \A i \in 1..Len(o.reqs) : o.reqs[i].res = "ok"
         ELSE UNCHANGED <<latest, clean>>
    /\ UNCHANGED <<now, ADMIN_IDS, AIRTABLE_API_KEY, AIRTABLE_BASE_ID, calls, written>>

\* the platform answers the webhook call with what the handler returned; the
\* invocation and its locals are gone
Respond ==
  /\ ~Idle
  /\ ev' = NoEvent
  /\ ret' = NoReturn
  /\ routed' = FALSE
  /\ args' = NoArgs
  /\ allowed' = TRUE
  /\ sent' = <<>>
  /\ reqs' = <<>>
  /\ UNCHANGED <<now, rateMap, table, ADMIN_IDS, AIRTABLE_API_KEY, AIRTABLE_BASE_ID,
                 winStart, winCalls, reopened, latest, clean, calls, written>>

\* an invocation arrives and runs to its first await
Arrive ==
  \E i \in Slots :
    LET e == Post(Update(Message(Chat(1), F111, OverlapText(i))))
        message == MessageOf(e.body)
        chatId == OrId(message.chat_id, 0)
        fromId == OrId(message.from.id, 0)
        f == FirstAwait(rateMap, now, chatId, fromId, Trim(message.text))
        fresh == winCalls[chatId] = 0 \/ now > winStart[chatId] + RATE_LIMIT_WINDOW_MS
        nth == IF fresh THEN 1 ELSE winCalls[chatId] + 1
    IN  /\ calls[i].pc = "new"
        /\ \A j \in 1..(i - 1) : calls[j].pc # "new"
        /\ Cardinality({j \in Slots : InFlight(calls[j])}) < MaxOverlap
        /\ rateMap' = f.rateMap
        /\ winStart' = [winStart EXCEPT ![chatId] = IF fresh THEN now ELSE @]
        /\ winCalls' = [winCalls EXCEPT ![chatId] = nth]
        /\ reopened' = [reopened EXCEPT ![chatId] = IF fresh THEN winCalls[chatId] > 0 ELSE @]
        /\ calls' = [calls EXCEPT ![i] =
                       [f.call EXCEPT !.nth = nth, !.win = winStart'[chatId]]]
        /\ UNCHANGED <<now, table, ADMIN_IDS, AIRTABLE_API_KEY, AIRTABLE_BASE_ID, ev, ret,
                       routed, args, allowed, sent, reqs, latest, clean, written>>

\* the store answers the find of an invocation, which goes on to its write
StoreFind ==
  \E i \in Slots : \E o \in FetchOutcomes :
    LET c == calls[i]
        records == IF o = "ok" THEN FindRecords(table, c.provider) ELSE <<>>
    IN  /\ c.pc = "find"
        /\ calls' = [calls EXCEPT ![i] =
                       IF o = "reject" THEN AwaitSend(c, TXT_FAILED, FALSE)
                       ELSE [c EXCEPT !.pc = "write",
                                      !.found = IF records # <<>> THEN records[1].id ELSE 0,
                                      !.sawNone = (o = "ok" /\ records = <<>>)]]
        /\ UNCHANGED <<now, rateMap, table, ADMIN_IDS, AIRTABLE_API_KEY, AIRTABLE_BASE_ID,
                       ev, ret, routed, args, allowed, sent, reqs, winStart, winCalls,
                       reopened, latest, clean, written>>

\* the store answers the create or the patch of an invocation, which goes on
\* to its reply
StoreWrite ==
  \E i \in Slots : \E o \in FetchOutcomes :
    LET c == calls[i]
        id == WriteTarget(c, table)
        tbl == IF o # "ok" THEN table
               ELSE IF id # 0 THEN PatchRecord(table, id, c.provider, c.details)
               ELSE CreateRecord(table, c.provider, c.details)
    IN  /\ c.pc = "write"
        /\ Len(tbl) <= MaxRecords
        /\ table' = tbl
        /\ written' = IF o # "ok" THEN written
                      ELSE IF id # 0 THEN [written EXCEPT ![id] = c.details]
                      ELSE Append(written, c.details)
        /\ calls' = [calls EXCEPT ![i] =
                       IF o = "reject" THEN AwaitSend(c, TXT_FAILED, FALSE)
                       ELSE AwaitSend([c EXCEPT !.made = (c.sawNone /\ o = "ok")],
                                      TxtUpdated(c.provider), TRUE)]
        /\ UNCHANGED <<now, rateMap, ADMIN_IDS, AIRTABLE_API_KEY, AIRTABLE_BASE_ID,
                       ev, ret, routed, args, allowed, sent, reqs, winStart, winCalls,
                       reopened, latest, clean>>

\* the send an invocation awaits completes: a rejected one inside the try of
\* setpayment goes to the catch and its send, any other ends the invocation
Send ==
  \E i \in Slots : \E o \in FetchOutcomes :
    LET c == calls[i]
    IN  /\ c.pc = "send"
        /\ calls' = [calls EXCEPT ![i] =
                       IF o = "reject" /\ c.inTry THEN AwaitSend(c, TXT_FAILED, FALSE)
                       ELSE [c EXCEPT !.pc = "done", !.reply = <<>>, !.inTry = FALSE]]
        /\ UNCHANGED <<now, rateMap, table, ADMIN_IDS, AIRTABLE_API_KEY, AIRTABLE_BASE_ID,
                       ev, ret, routed, args, allowed, sent, reqs, winStart, winCalls,
                       reopened, latest, clean, written>>

\* the router: every command on one chat, the clock from window to window
Next == Tick(WindowStarts) \/ Invoke(Events) \/ Respond

Spec == Init /\ [][Next]_vars

\* the rate limiter: two chats, the clock at and around the ends of the windows
NextRate == Tick(Instants) \/ Invoke(RateEvents) \/ Respond

SpecRate == Init /\ [][NextRate]_vars

\* overlapping setpayment invocations of one chat, step by step
NextOverlap == Tick(WindowStarts) \/ Arrive \/ StoreFind \/ StoreWrite \/ Send

SpecOverlap == Init /\ [][NextOverlap]_vars

\* ---- the rate limiter's windows ----
Min(a, b) == IF a <= b THEN a ELSE b

\* C1: for every chat, of the calls of allowRate made within one window (at
\* times up to the resetAt of the window its first call opened) the first
\* RATE_LIMIT_MAX return true and every later one false; the first call after
\* resetAt returns true and opens a window with count 1 and resetAt = now + W.
C1_WindowAdmitsFirstN ==
  routed =>
    LET c == args.chatId
    IN  /\ allowed = (winCalls[c] <= RATE_LIMIT_MAX)
        /\ c \in DOMAIN rateMap
        /\ rateMap[c].count = Min(winCalls[c], RATE_LIMIT_MAX)
        /\ rateMap[c].resetAt = winStart[c] + RATE_LIMIT_WINDOW_MS

\* the call after the RATE_LIMIT_MAX-th of a window was refused, in a window
\* that was opened by the first call after an earlier window's resetAt
C1_Witness ==
  /\ routed /\ ~allowed
  /\ winCalls[args.chatId] = RATE_LIMIT_MAX + 1
  /\ reopened[args.chatId]

\* ---- the payment records ----
RowsOf(p) == { i \in 1..Len(table) : table[i].fields.Provider = p }

\* the table holds exactly one record of each provider that was set, with the
\* details of the latest setpayment for it
OneRecordWithLatest ==
  \A p \in Providers :
    latest[p] # <<>> =>
      /\ Cardinality(RowsOf(p)) = 1
      /\ \A i \in RowsOf(p) : table[i].fields.Details = latest[p][1]

\* C2 as stated: with a configured store, after any sequence of valid
\* setpayment commands of admins the table holds exactly one record for each
\* provider set, with the details of the most recent setpayment for it.
C2_Original == Configured => OneRecordWithLatest

\* C2 as amended: the same, for the sequences in which every command passed
\* the rate limit and every Airtable request was answered with success.
C2_UpsertKeepsOneRecord == Configured /\ clean => OneRecordWithLatest

\* a record created by one setpayment has just been patched by a later one
C2_Witness ==
  /\ Configured /\ clean
  /\ Len(reqs) = 2 /\ reqs[2].op = "patch"
  /\ latest[S_jazzcash] = << <<"y">> >>
  /\ latest[S_easypaisa] # <<>>

\* C3: at most one record per provider in every state non-overlapping upserts
\* reach, the runs in which the find fails included.
C3_AtMostOnePerProvider == \A p \in Providers : Cardinality(RowsOf(p)) <= 1

\* ---- the handler ----
\* C4: every invocation of the handler returns status 200 with body ok,
\* whatever the method and the body and whichever of the rate limiter, the
\* store and the send fails in it.
C4_AlwaysAcknowledges == ev.httpMethod # "none" => ret = OK200

\* the store rejected the find and the handler still acknowledged
C4_Witness ==
  /\ routed /\ reqs # <<>> /\ reqs[1].res = "reject"
  /\ sent # <<>> /\ sent[1].text = TXT_FAILED
  /\ ret = OK200

\* ---- the router ----
Cmd == ToLowerCase(Tokens(args.text)[1])
IsSetPaymentCall == routed /\ Cmd \in {S_setpayment, S_setpayment0}
IsGetPaymentsCall == routed /\ Cmd \in {S_getpayments, S_payments}
NotInAdminList == ADMIN_IDS # {} /\ IdStr(args.userId) \notin ADMIN_IDS
FirstReply == sent[1].text
InvalidProviderText ==
  <<"Invalid provider. Allowed: ">> \o S_jazzcash \o <<",", " ">> \o S_easypaisa

\* C5 as stated: a setpayment from a sender outside a non-empty admin list is
\* answered with the admin-only refusal and makes no store request.
C5_Original ==
  IsSetPaymentCall /\ NotInAdminList =>
    /\ sent # <<>> /\ FirstReply = TXT_ADMIN_ONLY
    /\ reqs = <<>>

\* C5 as amended: such a setpayment makes no store request, and is answered
\* with the admin-only refusal when it passes the rate limit (with the
\* slow-down notice when it does not).
C5_NonAdminNeverReachesStore ==
  IsSetPaymentCall /\ NotInAdminList =>
    /\ reqs = <<>>
    /\ Len(sent) = 1
    /\ FirstReply = IF allowed THEN TXT_ADMIN_ONLY ELSE TXT_SLOW

\* a valid setpayment of a sender outside the list, with a configured store
C5_Witness ==
  /\ IsSetPaymentCall /\ NotInAdminList /\ allowed /\ Configured
  /\ ValidSetPayment(args.text)
  /\ FirstReply = TXT_ADMIN_ONLY

\* C6: with an empty admin list every sender, the absent one included, passes
\* the authorization check of setpayment; with a non-empty one a sender
\* passes exactly if the string form of its id is in the list.
C6_AdminCheck ==
  IsSetPaymentCall /\ allowed =>
    /\ sent # <<>>
    /\ (FirstReply # TXT_ADMIN_ONLY) <=>
          IF ADMIN_IDS = {} THEN TRUE ELSE IdStr(args.userId) \in ADMIN_IDS

\* the absent sender passed the check under an empty list
C6_Witness ==
  /\ IsSetPaymentCall /\ allowed /\ ADMIN_IDS = {} /\ args.userId = 0
  /\ FirstReply # TXT_ADMIN_ONLY

\* C7 as stated: a setpayment of an authorized sender with fewer than three
\* tokens is answered with the usage message, one with three or more and a
\* provider outside jazzcash, easypaisa with the invalid-provider message
\* listing exactly these two; neither makes a store request.
C7_Original ==
  IsSetPaymentCall /\ PassesAdmin(args.userId) =>
    /\ Len(Tokens(args.text)) < 3 =>
          sent # <<>> /\ FirstReply = TXT_USAGE /\ reqs = <<>>
    /\ Len(Tokens(args.text)) >= 3 /\ ProviderOf(args.text) \notin Providers =>
          sent # <<>> /\ FirstReply = InvalidProviderText /\ reqs = <<>>

\* C7 as amended: the same for the commands that pass the rate limit; a
\* rate-limited one gets the slow-down notice, and makes no store request
\* either.
C7_ArityThenProvider ==
  IsSetPaymentCall /\ PassesAdmin(args.userId) =>
    /\ Len(Tokens(args.text)) < 3 =>
          /\ Len(sent) = 1 /\ reqs = <<>>
          /\ FirstReply = IF allowed THEN TXT_USAGE ELSE TXT_SLOW
    /\ Len(Tokens(args.text)) >= 3 /\ ProviderOf(args.text) \notin Providers =>
          /\ Len(sent) = 1 /\ reqs = <<>>
          /\ FirstReply = IF allowed THEN InvalidProviderText ELSE TXT_SLOW

\* an admin's setpayment for an unknown provider, with a configured store
C7_Witness ==
  /\ IsSetPaymentCall /\ allowed /\ Configured /\ ADMIN_IDS # {}
  /\ Len(Tokens(args.text)) >= 3 /\ ProviderOf(args.text) \notin Providers
  /\ FirstReply = InvalidProviderText

\* C8: within one call of the router the checks run in the order rate limit,
\* command dispatch, then for setpayment authorization, arity, provider,
\* store call; the reply is that of the first check that fails, and the
\* store is called only after all the earlier checks passed.
C8_CheckOrder ==
  routed =>
    /\ sent # <<>>
    /\ ~allowed => FirstReply = TXT_SLOW /\ reqs = <<>>
    /\ allowed /\ IsSetPaymentCall =>
          IF ~PassesAdmin(args.userId) THEN FirstReply = TXT_ADMIN_ONLY /\ reqs = <<>>
          ELSE IF Len(Tokens(args.text)) < 3 THEN FirstReply = TXT_USAGE /\ reqs = <<>>
          ELSE IF ProviderOf(args.text) \notin Providers
            THEN FirstReply = InvalidProviderText /\ reqs = <<>>
          ELSE /\ FirstReply \notin {TXT_SLOW, TXT_ADMIN_ONLY, TXT_USAGE, InvalidProviderText}
               /\ Configured => reqs # <<>> /\ reqs[1].op = "find"
    /\ (\E i \in 1..Len(reqs) : reqs[i].op # "list") =>
          /\ allowed /\ IsSetPaymentCall /\ PassesAdmin(args.userId)
          /\ Len(Tokens(args.text)) >= 3 /\ ProviderOf(args.text) \in Providers

\* a sender outside the list sent a setpayment with too few tokens and got
\* the admin-only refusal, not the usage hint
C8_Witness ==
  /\ IsSetPaymentCall /\ allowed /\ NotInAdminList /\ Configured
  /\ Len(Tokens(args.text)) < 3
  /\ FirstReply = TXT_ADMIN_ONLY

KnownCommands ==
  {S_start, S_start0, S_profile, S_me, S_setpayment, S_setpayment0, S_getpayments, S_payments}

\* C9: a call of the router whose text dispatches to start or to the
\* plain-text default (empty text included) makes no request to the store;
\* nor does profile, an unknown slash command or a rate-limited request.
C9_NoStoreRequest ==
  /\ routed /\ ~allowed => reqs = <<>>
  /\ routed /\ Cmd \in {S_start, S_start0, S_profile, S_me} => reqs = <<>>
  /\ routed /\ Cmd \notin KnownCommands => reqs = <<>>

\* the latest call was a getpayments refused by the rate limit, with a
\* configured store that holds records
C9_Witness ==
  /\ routed /\ ~allowed /\ Configured /\ table # <<>>
  /\ Cmd = S_getpayments
  /\ reqs = <<>>

\* the pieces of a reply text between its bullet markers, the heading first
RECURSIVE SplitAtBullets(_, _, _)
SplitAtBullets(text, done, cur) ==
  IF text = <<>> THEN Append(done, cur)
  ELSE IF Head(text) = BULLET THEN SplitAtBullets(Tail(text), Append(done, cur), <<>>)
  ELSE SplitAtBullets(Tail(text), done, Append(cur, Head(text)))

Plain(str) == SelectSeq(str, LAMBDA c : c \notin {"*", "_", Grave, "[", "]"})

\* what the list of the latest getpayments returned
Returned == IF Configured /\ reqs # <<>> /\ reqs[1].res = "ok" THEN table ELSE <<>>

\* C10: getpayments is open to every sender; when the list returns no
\* record the reply is the none-configured message, and otherwise it holds
\* one bullet line per returned record, in the order returned, none dropped,
\* duplicated or reordered.
C10_GetPaymentsLists ==
  IsGetPaymentsCall /\ allowed =>
    /\ sent # <<>> /\ FirstReply # TXT_ADMIN_ONLY
    /\ Configured => Len(reqs) = 1 /\ reqs[1].op = "list"
    /\ (Configured => reqs[1].res # "reject") =>
          IF Returned = <<>> THEN FirstReply = TXT_NONE
          ELSE LET pieces == SplitAtBullets(FirstReply, <<>>, <<>>)
               IN  /\ Len(pieces) = Len(Returned) + 1
                   /\ \A i \in 1..Len(Returned) :
                        pieces[i + 1] =
                          Plain(OrStr(Returned[i].fields.Provider, S_unknown))
                            \o <<"*: ">> \o Plain(Returned[i].fields.Details)

\* a sender outside the admin list listed two records of two providers
C10_Witness ==
  /\ IsGetPaymentsCall /\ allowed /\ NotInAdminList
  /\ Len(Returned) = 2
  /\ Returned[1].fields.Provider # Returned[2].fields.Provider
  /\ Len(SplitAtBullets(FirstReply, <<>>, <<>>)) = 3

\* ---- the command surface ----
\* a command token without its leading slash
Bare(c) == IF StartsWithSlash(c) THEN Tail(c) ELSE c

\* the branch of the router a first reply comes from
ReplyKind ==
  IF FirstReply = TXT_HELP THEN "start"
  ELSE IF FirstReply[1] = "*Profile*\nName: " THEN "profile"
  ELSE IF \/ FirstReply \in {TXT_ADMIN_ONLY, TXT_USAGE, InvalidProviderText, TXT_FAILED}
          \/ FirstReply[1] \in {"Updated *", "Configured "} THEN "setpayment"
  ELSE IF \/ FirstReply \in {TXT_NONE, TXT_READ_ERROR}
          \/ FirstReply[1] = "*Current Payment Details:*\n" THEN "getpayments"
  ELSE IF FirstReply = TXT_UNKNOWN THEN "unknown"
  ELSE "default"

\* C11: the first token of the trimmed text, lower-cased, selects the
\* branch, and every command of the surface reaches its branch with and
\* without the leading slash: start and help, profile and me, setpayment,
\* getpayments and payments.
C11_SlashOptional ==
  routed /\ allowed =>
    LET b == Bare(Cmd)
    IN  /\ b \in {Bare(S_start), Bare(T_help)} => ReplyKind = "start"
        /\ b \in {Bare(S_profile), Bare(S_me)} => ReplyKind = "profile"
        /\ b = Bare(S_setpayment) => ReplyKind = "setpayment"
        /\ b \in {Bare(S_getpayments), Bare(S_payments)} => ReplyKind = "getpayments"

\* ---- failures of the store ----
\* a setpayment that went through every check of the router
ReachedStoreBranch ==
  /\ IsSetPaymentCall /\ allowed
  /\ PassesAdmin(args.userId) /\ ValidSetPayment(args.text)

UpdatedText == <<"Updated *">> \o ProviderOf(args.text) \o <<"* details.">>

\* C12: with a configured store, a non-success answer to the find, the
\* create or the patch of an upsert makes the reply the failed-to-update
\* message, and the Updated reply is sent only when the record was created
\* or patched in the store.
C12_FailureReported ==
  ReachedStoreBranch /\ Configured =>
    /\ (\E i \in 1..Len(reqs) : reqs[i].res = "fail") => FirstReply = TXT_FAILED
    /\ FirstReply = UpdatedText =>
          /\ reqs[Len(reqs)].op \in {"create", "patch"}
          /\ reqs[Len(reqs)].res = "ok"

\* C13 as stated: the list never raises to the router: without credentials
\* it makes no request, and without credentials, on a non-success answer and
\* on a request that cannot complete, getpayments replies none-configured.
C13_Original ==
  IsGetPaymentsCall /\ allowed =>
    /\ ~Configured => reqs = <<>>
    /\ (~Configured \/ reqs[1].res # "ok") => FirstReply = TXT_NONE

\* C13 as amended: without credentials the list makes no request and
\* returns no record, on a non-success answer it returns no record, and
\* getpayments then replies none-configured; a list request that cannot
\* complete raises to the router, which replies with the error-reading
\* message.
C13_ListDegradesOrRaises ==
  IsGetPaymentsCall /\ allowed =>
    /\ ~Configured => reqs = <<>> /\ FirstReply = TXT_NONE
    /\ Configured =>
          /\ Len(reqs) = 1 /\ reqs[1].op = "list"
          /\ reqs[1].res = "fail" => FirstReply = TXT_NONE
          /\ reqs[1].res = "reject" => FirstReply = TXT_READ_ERROR

\* the store holds records and answered the list with a non-success status
C13_Witness ==
  /\ IsGetPaymentsCall /\ allowed /\ Configured /\ table # <<>>
  /\ reqs[1].res = "fail"
  /\ FirstReply = TXT_NONE

\* C14: without the API key or the base id, a setpayment that passes the
\* authorization, arity and provider checks makes no store request, persists
\* nothing and is answered with the echo Configured provider: details, not
\* with the failed-to-update reply (which follows only as a second message,
\* from the catch, when the send of the echo threw).
C14_DegradedEcho ==
  ReachedStoreBranch /\ ~Configured =>
    /\ reqs = <<>> /\ table = <<>>
    /\ FirstReply = <<"Configured ">> \o ProviderOf(args.text) \o <<": ">>
                       \o DetailsOf(args.text)
    /\ Len(sent) <= 2
    /\ Len(sent) = 2 => sent[2].text = TXT_FAILED

\* a listed admin set a provider on a process without the API key
C14_Witness ==
  /\ ReachedStoreBranch /\ ~Configured /\ ADMIN_IDS # {}
  /\ Len(sent) = 1 /\ FirstReply[1] = "Configured "
  /\ reqs = <<>>

\* ---- the replies ----
\* C15: no reply holds a markup character that came from the user: the
\* characters of first name, username, provider and details (echoed or read
\* back) are the one-character pieces of a reply text, the literals of the
\* templates its longer ones.
C15_RepliesSanitized ==
  \A i \in 1..Len(sent) : \A j \in 1..Len(sent[i].text) :
    sent[i].text[j] \notin MarkupChars

\* C16: an invocation of the router makes at most one send, whether or not
\* that send fails.
C16_AtMostOneSend == routed => Len(sent) <= 1

\* ---- events without a chat id, events without a text ----
\* the chat id and the text an event carries
ChatIdOf(e) ==
  LET m == MessageOf(e.body)
  IN  IF m.chat_id # 0 THEN m.chat_id
      ELSE IF e.body.message # <<>> THEN e.body.message[1].chat_id ELSE 0
TextOf(e) == MessageOf(e.body).text

\* the step is an invocation of the handler on a POST event
Invoked == Idle /\ ~Idle' /\ ev'.httpMethod = "POST"

\* the invocation left the rate limiter, the store and the chat alone
Untouched ==
  /\ ~routed' /\ ret' = OK200
  /\ rateMap' = rateMap /\ winCalls' = winCalls /\ winStart' = winStart
  /\ table' = table /\ reqs' = <<>> /\ sent' = <<>>

Arrived == {i \in Slots : calls[i].pc # "new"}

\* the upserts that saw no record of their provider and whose write the
\* store applied
MadeNew == {i \in Slots : calls[i].made}

\* C18: the upsert is a find followed, after an await, by a create or a
\* patch of what the find returned.  Every upsert that found no record
\* creates one, whatever was created since, so overlapping upserts that both
\* found none leave two records of the provider; upserts that found the
\* one record all patch that record; and each record holds the details of
\* the write the store applied to it last.
C18_NonAtomicUpsert ==
  /\ Cardinality(RowsOf(S_jazzcash)) >= Cardinality(MadeNew)
  /\ Cardinality(RowsOf(S_jazzcash)) = 1 =>
        \A i \in Slots :
          calls[i].pc = "write" /\ calls[i].found # 0 => calls[i].found \in RowsOf(S_jazzcash)
  /\ Len(written) = Len(table)
  /\ \A r \in 1..Len(table) : table[r].fields.Details = written[r]

\* two overlapping setpayments both found no record and both created one:
\* the table holds two records of the provider, with different details
C18_Witness ==
  /\ Cardinality(MadeNew) = 2
  /\ Cardinality(RowsOf(S_jazzcash)) = 2
  /\ table[1].fields.Details # table[2].fields.Details

\* C19: the rate check of an invocation is one step with no await in it, so
\* however the invocations of a chat interleave at their awaits, the n-th
\* check of a window passes exactly if n is at most RATE_LIMIT_MAX, at most
\* RATE_LIMIT_MAX invocations of a window pass, and the count of the window
\* is the number of checks made in it (up to RATE_LIMIT_MAX), none lost.
C19_AtomicRateCheck ==
  /\ \A i \in Arrived : calls[i].ok = (calls[i].nth <= RATE_LIMIT_MAX)
  /\ \A i \in Arrived :
        Cardinality({j \in Arrived : calls[j].win = calls[i].win /\ calls[j].ok})
          <= RATE_LIMIT_MAX
  /\ Arrived # {} =>
        /\ Chat(1) \in DOMAIN rateMap
        /\ rateMap[Chat(1)].count = Min(winCalls[Chat(1)], RATE_LIMIT_MAX)
        /\ rateMap[Chat(1)].resetAt = winStart[Chat(1)] + RATE_LIMIT_WINDOW_MS

\* the check after the RATE_LIMIT_MAX-th of a window was refused while an
\* earlier invocation of the window was still awaiting the store
C19_Witness ==
  \E i \in Arrived :
    /\ ~calls[i].ok /\ calls[i].nth = RATE_LIMIT_MAX + 1
    /\ \E j \in Arrived :
          calls[j].win = calls[i].win /\ calls[j].ok /\ calls[j].pc \in {"find", "write"}

\* ---- the frame of the rate limiter ----
\* C20: after every call of allowRate each window of the map has a count
\* from 1 to RATE_LIMIT_MAX; a call for one chat leaves the windows of the
\* other chats as they were; and a call that returns false leaves the whole
\* map as it was, count and resetAt alike.
C20_RateMapFrame ==
  [][Idle /\ routed' =>
       /\ \A d \in DOMAIN rateMap' :
             1 <= rateMap'[d].count /\ rateMap'[d].count <= RATE_LIMIT_MAX
       /\ DOMAIN rateMap' = DOMAIN rateMap \cup {args'.chatId}
       /\ \A d \in DOMAIN rateMap \ {args'.chatId} : rateMap'[d] = rateMap[d]
       /\ ~allowed' => rateMap' = rateMap]_vars

\* a call was refused while the windows of both chats were full
C20_Witness ==
  /\ routed /\ ~allowed
  /\ DOMAIN rateMap = {Chat(1), Chat(2)}
  /\ \A d \in DOMAIN rateMap : rateMap[d].count = RATE_LIMIT_MAX

====
